---- MODULE Spec2Model ----
(***************************************************************************)
(* Look-ahead metronome scheduler of root-progression (src/app.js).        *)
(*                                                                         *)
(* Time is counted on a grid of 50 ms: LOOK_AHEAD_TIME (0.1 s) is 2 units, *)
(* one second is 20 units, and 60/tempo seconds is 1200/tempo units, which *)
(* is exact for every tempo of TempoValues.  Arithmetic on the grid is     *)
(* exact; floating-point rounding of the JavaScript numbers is not         *)
(* modelled.                                                               *)
(*                                                                         *)
(* Every handler of the page runs to completion on the main context, so    *)
(* each handler is one action.  The audio clock, the worker, the timer     *)
(* queue and the audio context's state machine are the platform; they are  *)
(* modelled from what the Web platform guarantees of them.                 *)
(*                                                                         *)
(* Spec is the page with src/app.js on a platform that works.  The         *)
(* variable variant selects the script: VariantSpec and FaultSpec also     *)
(* start with src/unnamed/part_001, the version with the silent audio      *)
(* stream, and FaultSpec adds the platform's failures and the page being   *)
(* hidden and shown again.                                                 *)
(***************************************************************************)
EXTENDS Integers, Sequences, FiniteSets, TLC

\* ---------------------------------------------------------------- bounds
\* the audio clock stops at MaxClock units
MaxClock == 3
\* a start command is taken while fewer than MaxAudioOps suspend()/resume()
\* requests are waiting to be carried out
MaxAudioOps == 1
\* the radio group offers 1..MaxBeatsPerRoot beats per root
MaxBeatsPerRoot == 2
\* Math.floor(Math.random() * ROOTS.length) is drawn from 0..MaxRandomIndex
MaxRandomIndex == 1

\* ------------------------------------------------------------- constants
ROOTS == <<"C", "C#", "Db", "D", "Eb", "E", "F", "F#", "Gb", "G", "Ab", "A", "Bb", "B">>

\* 0.1 s, in units of 50 ms
LOOK_AHEAD_TIME == 2
\* the "+ 0.1" of startMetronome, in units of 50 ms
StartOffset == 2
\* one second, in units of 50 ms (ten times 0.1 s)
UnitsPerSecond == 10 * LOOK_AHEAD_TIME

InitialTempo == 120
InitialBeatsPerRoot == 2

\* values the tempo slider can take (those whose beat period lies on the grid)
TempoValues == {120, 1200}
\* values of the beats-per-root radio group
BeatOptions == 1..MaxBeatsPerRoot

RootSet == {ROOTS[i] : i \in 1..Len(ROOTS)}

VARIABLES
    loaded,         \* DOMContentLoaded has run
    audioState,     \* "null" (no AudioContext), else audioContext.state
    audioOps,       \* suspend()/resume() requests not yet carried out
    currentTime,    \* audioContext.currentTime
    isRunning,
    tempo,
    beatsPerRoot,
    nextNoteTime,
    currentBeat,
    timerWorker,    \* 0 for null, 1 for the Worker of the current run
    ticks,          \* workers with a 'tick' message posted and not yet delivered
    currentRoot,
    upcomingRoot,
    beatIndicator,  \* <<>> for '', else <<beatNumber, beatsPerRoot>> as displayed
    timeouts,       \* pending setTimeout callbacks, in the order they will fire
    runCount,       \* history: the runs started so far, 0, 1, or 2 for two or more
    lastTime,       \* time of the last oscillator.start(time), -1 before the first
    run,            \* history of the current run: the clock at its start, the
                    \* beats computed in it, and whether tempo and beatsPerRoot
                    \* have kept the values they had at its start
    pass,           \* history: the beats that the latest scheduler() call handed
                    \* to scheduleClick, in that order; empty again once the
                    \* run ends or 50 ms have passed
    variant,        \* the version of the script that the page loads: "app" for
                    \* src/app.js, "silent" for src/unnamed/part_001
    silentToneOscillator,   \* part_001: FALSE for null, TRUE for the oscillator
    threw,          \* history: an exception has left a handler uncaught
    wakeLock        \* app.js: FALSE for null, TRUE for the screen wake lock

vars == <<loaded, audioState, audioOps, currentTime, isRunning, tempo, beatsPerRoot,
          nextNoteTime, currentBeat, timerWorker, ticks, currentRoot, upcomingRoot,
          beatIndicator, timeouts, runCount, lastTime, run, pass,
          variant, silentToneOscillator, threw, wakeLock>>

rootVars == <<currentRoot, upcomingRoot>>
histVars == <<run, pass>>
audioVars == <<audioState, audioOps>>
otherVars == <<variant, silentToneOscillator, threw, wakeLock>>

\* ------------------------------------------------------- pure functions

\* const secondsPerBeat = 60.0 / tempo
SecondsPerBeat(t) == (60 * UnitsPerSecond) \div t

\* mutants of NextBeat: no wrap, and a wrap one beat early
NextBeat_NoWrap(p, n) == p + 1
NextBeat_EarlyWrap(p, n) == IF p + 1 >= n THEN 1 ELSE p + 1

\* currentBeat++; if (currentBeat > beatsPerRoot) currentBeat = 1
NextBeat(p, n) == IF p + 1 > n THEN 1 ELSE p + 1

\* const isDownbeat = (beatNumber === 1)
IsDownbeat(beatNumber) == beatNumber = 1

\* mutant of SeedBeat: the counter seeded with the first beat
SeedBeat_First(n) == 1

\* currentBeat = beatsPerRoot, at start and on a change while running
SeedBeat(n) == n

\* mutant of FirstNoteTime: no start-up offset
FirstNoteTime_Now(now) == now

\* nextNoteTime = audioContext.currentTime + 0.1
FirstNoteTime(now) == now + StartOffset

\* mutant of Due: <= in place of <
Due_Inclusive(nnt, now) == nnt <= now + LOOK_AHEAD_TIME

\* the loop condition of scheduler()
Due(nnt, now) == nnt < now + LOOK_AHEAD_TIME

\* mutant of Delay: the distance to the beat, whichever side of the clock it is
Delay_Distance(time, now) == IF time - now < 0 THEN now - time ELSE time - now

\* (time - audioContext.currentTime) * 1000 as setTimeout takes it:
\* a negative delay is a delay of 0
Delay(time, now) == IF time - now < 0 THEN 0 ELSE time - now

\* mutant of generateNewRoot: the draw is not repeated when it hits excludeRoot
generateNewRoot_NoRetry(excludeRoot) ==
    {ROOTS[i + 1] : i \in 0..MaxRandomIndex}

\* the values generateNewRoot(excludeRoot) can return
generateNewRoot(excludeRoot) ==
    {ROOTS[i + 1] : i \in 0..MaxRandomIndex} \ {excludeRoot}

\* setTimeout: the callback fires after every pending callback that expires
\* no later than it does
InsertTimeout(q, e) ==
    LET n == Cardinality({i \in 1..Len(q) : q[i].rem <= e.rem})
    IN  SubSeq(q, 1, n) \o <<e>> \o SubSeq(q, n + 1, Len(q))

\* part_001: if (audioContext.state === 'suspended') return;
ReturnsEarly == variant = "silent" /\ audioState = "suspended"

\* scheduleClick(time, beatNumber) applied to the state st of a scheduler() call
scheduleClick(st, time, beatNumber) ==
    LET b == [time       |-> time,
              beatNumber |-> beatNumber,
              isDownbeat |-> IsDownbeat(beatNumber)]
        e == [rem |-> Delay(time, currentTime), beat |-> b]
    IN  IF ReturnsEarly
        THEN [st EXCEPT !.beats = Append(st.beats, b)]
        ELSE [st EXCEPT !.timeouts = InsertTimeout(st.timeouts, e),
                        !.lastTime = time,
                        !.beats = Append(st.beats, b)]

\* mutant of LoopBody: the next beat is timed from the clock, not from the
\* beat before it
LoopBody_FromClock(st, secondsPerBeat) ==
    LET cb == NextBeat(st.currentBeat, beatsPerRoot)
        s1 == scheduleClick([st EXCEPT !.currentBeat = cb], st.nextNoteTime, cb)
    IN  [s1 EXCEPT !.nextNoteTime = currentTime + secondsPerBeat]

\* mutant of LoopBody: the beat period is that of the tempo the page loads with
LoopBody_InitialTempo(st, secondsPerBeat) ==
    LET cb == NextBeat(st.currentBeat, beatsPerRoot)
        s1 == scheduleClick([st EXCEPT !.currentBeat = cb], st.nextNoteTime, cb)
    IN  [s1 EXCEPT !.nextNoteTime = st.nextNoteTime + SecondsPerBeat(InitialTempo)]

\* one iteration of the while loop of scheduler()
LoopBody(st, secondsPerBeat) ==
    LET cb == NextBeat(st.currentBeat, beatsPerRoot)
        s1 == scheduleClick([st EXCEPT !.currentBeat = cb], st.nextNoteTime, cb)
    IN  [s1 EXCEPT !.nextNoteTime = st.nextNoteTime + secondsPerBeat]

\* mutant of SchedulerLoop: an if in place of the while
SchedulerLoop_Once(st, secondsPerBeat) ==
    IF Due(st.nextNoteTime, currentTime) THEN LoopBody(st, secondsPerBeat) ELSE st

\* the while loop of scheduler()
RECURSIVE SchedulerLoop(_, _)
SchedulerLoop(st, secondsPerBeat) ==
    IF Due(st.nextNoteTime, currentTime)
    THEN SchedulerLoop(LoopBody(st, secondsPerBeat), secondsPerBeat)
    ELSE st

\* the state scheduler() leaves
scheduler ==
    SchedulerLoop([nextNoteTime |-> nextNoteTime,
                   currentBeat  |-> currentBeat,
                   timeouts     |-> timeouts,
                   lastTime     |-> lastTime,
                   beats        |-> << >>],
                  SecondsPerBeat(tempo))

\* ------------------------------------------------------------------ Init

NoRun == [start |-> 0, k |-> 0, tempoFixed |-> TRUE, beatsFixed |-> TRUE]

Init ==
    /\ loaded = FALSE
    /\ audioState = "null"
    /\ audioOps = << >>
    /\ currentTime = 0
    /\ isRunning = FALSE
    /\ tempo = InitialTempo
    /\ beatsPerRoot = InitialBeatsPerRoot
    /\ nextNoteTime = 0
    /\ currentBeat = 0
    /\ timerWorker = 0
    /\ ticks = {}
    /\ currentRoot = "C"
    /\ upcomingRoot = "G"
    /\ beatIndicator = << >>
    /\ timeouts = << >>
    /\ runCount = 0
    /\ lastTime = -1
    /\ run = NoRun
    /\ pass = << >>
    /\ variant = "app"
    /\ silentToneOscillator = FALSE
    /\ threw = FALSE
    /\ wakeLock = FALSE

\* the state after construction when the page loads src/unnamed/part_001
InitSilent ==
    /\ loaded = FALSE
    /\ audioState = "null"
    /\ audioOps = << >>
    /\ currentTime = 0
    /\ isRunning = FALSE
    /\ tempo = InitialTempo
    /\ beatsPerRoot = InitialBeatsPerRoot
    /\ nextNoteTime = 0
    /\ currentBeat = 0
    /\ timerWorker = 0
    /\ ticks = {}
    /\ currentRoot = "C"
    /\ upcomingRoot = "G"
    /\ beatIndicator = << >>
    /\ timeouts = << >>
    /\ runCount = 0
    /\ lastTime = -1
    /\ run = NoRun
    /\ pass = << >>
    /\ variant = "silent"
    /\ silentToneOscillator = FALSE
    /\ threw = FALSE
    /\ wakeLock = FALSE

\* --------------------------------------------------------------- actions

\* mutant of updateRoots: upcoming is redrawn, current is left as it is
updateRoots_NoShift ==
    /\ currentRoot' = currentRoot
    /\ upcomingRoot' \in generateNewRoot(currentRoot)

\* updateRoots()
updateRoots ==
    /\ currentRoot' = upcomingRoot
    /\ upcomingRoot' \in generateNewRoot(upcomingRoot)

\* part_001: startSilentAudioStream(), the oscillator reference it leaves
startSilentAudioStream ==
    IF variant = "silent" THEN TRUE ELSE silentToneOscillator

\* mutant of stopSilentAudioStream: the oscillator is stopped and the
\* reference to it is kept
stopSilentAudioStream_KeepNode ==
    silentToneOscillator

\* part_001: stopSilentAudioStream(), the oscillator reference it leaves
stopSilentAudioStream ==
    IF variant = "silent" THEN FALSE ELSE silentToneOscillator

\* app.js: requestWakeLock() where the lock is granted, the reference it leaves
requestWakeLock ==
    IF variant = "app" THEN TRUE ELSE wakeLock

\* app.js: releaseWakeLock(), the reference it leaves
releaseWakeLock ==
    IF variant = "app" THEN FALSE ELSE wakeLock

\* the DOMContentLoaded handler: updateRoots(), then
\* upcomingRoot = generateNewRoot(currentRoot)
DOMContentLoaded ==
    /\ ~loaded
    /\ loaded' = TRUE
    /\ generateNewRoot(upcomingRoot) # {}
    /\ currentRoot' = upcomingRoot
    /\ upcomingRoot' \in generateNewRoot(upcomingRoot)
    /\ UNCHANGED <<otherVars, audioVars, currentTime, isRunning, tempo, beatsPerRoot, nextNoteTime,
                   currentBeat, timerWorker, ticks, beatIndicator, timeouts, runCount,
                   lastTime, histVars>>

\* startMetronome() past its first line: the audio context is created or
\* resumed, the run's state is set and the worker is created
StartRun ==
    \E fresh \in {"suspended", "running"} :
       LET state == IF audioState = "null" THEN fresh ELSE audioState
       IN  /\ audioState' = state
           /\ audioOps' = IF state = "suspended"
                          THEN Append(audioOps, "resume") ELSE audioOps
           /\ isRunning' = TRUE
           /\ nextNoteTime' = FirstNoteTime(currentTime)
           /\ currentBeat' = SeedBeat(beatsPerRoot)
           /\ timerWorker' = 1
           /\ runCount' = IF runCount < 2 THEN runCount + 1 ELSE 2
           /\ run' = [start |-> currentTime, k |-> 0,
                      tempoFixed |-> TRUE, beatsFixed |-> TRUE]
           /\ pass' = << >>
           /\ silentToneOscillator' = startSilentAudioStream
           /\ wakeLock' = requestWakeLock
           /\ UNCHANGED <<variant, threw, loaded, currentTime, tempo, beatsPerRoot,
                          ticks, rootVars, beatIndicator, timeouts, lastTime>>

\* mutant of startMetronome: without if (isRunning) return
startMetronome_NoGuard == StartRun

\* startMetronome()
startMetronome ==
    IF isRunning
    THEN UNCHANGED vars
    ELSE StartRun

\* mutant of stopMetronome: the beat counter is not reset
stopMetronome_KeepBeat ==
    /\ ticks' = IF timerWorker # 0 THEN ticks \ {timerWorker} ELSE ticks
    /\ timerWorker' = 0
    /\ isRunning' = FALSE
    /\ beatIndicator' = << >>
    /\ audioOps' = IF audioState # "null" THEN Append(audioOps, "suspend") ELSE audioOps
    /\ run' = NoRun
    /\ pass' = << >>
    /\ silentToneOscillator' = stopSilentAudioStream
    /\ wakeLock' = releaseWakeLock
    /\ UNCHANGED <<variant, threw, loaded, audioState, currentTime, tempo, beatsPerRoot, nextNoteTime,
                   currentBeat, rootVars, timeouts, runCount, lastTime>>

\* mutant of stopMetronome: the worker is dropped without terminate()
stopMetronome_NoTerminate ==
    /\ ticks' = ticks
    /\ timerWorker' = 0
    /\ isRunning' = FALSE
    /\ beatIndicator' = << >>
    /\ currentBeat' = 0
    /\ audioOps' = IF audioState # "null" THEN Append(audioOps, "suspend") ELSE audioOps
    /\ run' = NoRun
    /\ pass' = << >>
    /\ silentToneOscillator' = stopSilentAudioStream
    /\ wakeLock' = releaseWakeLock
    /\ UNCHANGED <<variant, threw, loaded, audioState, currentTime, tempo, beatsPerRoot,
                   nextNoteTime, rootVars, timeouts, runCount, lastTime>>

\* mutant of stopMetronome: timerWorker.terminate() without if (timerWorker)
stopMetronome_NoNullCheck ==
    IF timerWorker = 0
    THEN /\ threw' = TRUE
         /\ UNCHANGED <<variant, silentToneOscillator, wakeLock, loaded, audioVars, currentTime,
                        isRunning, tempo, beatsPerRoot, nextNoteTime, currentBeat,
                        timerWorker, ticks, rootVars, beatIndicator, timeouts, runCount,
                        lastTime, histVars>>
    ELSE /\ ticks' = ticks \ {timerWorker}
         /\ timerWorker' = 0
         /\ isRunning' = FALSE
         /\ beatIndicator' = << >>
         /\ currentBeat' = 0
         /\ audioOps' = IF audioState # "null" THEN Append(audioOps, "suspend") ELSE audioOps
         /\ run' = NoRun
         /\ pass' = << >>
         /\ silentToneOscillator' = stopSilentAudioStream
         /\ wakeLock' = releaseWakeLock
         /\ UNCHANGED <<variant, threw, loaded, audioState, currentTime, tempo,
                        beatsPerRoot, nextNoteTime, rootVars, timeouts, runCount, lastTime>>

\* stopMetronome()
stopMetronome ==
    /\ ticks' = IF timerWorker # 0 THEN ticks \ {timerWorker} ELSE ticks
    /\ timerWorker' = 0
    /\ isRunning' = FALSE
    /\ beatIndicator' = << >>
    /\ currentBeat' = 0
    /\ audioOps' = IF audioState # "null" THEN Append(audioOps, "suspend") ELSE audioOps
    /\ run' = NoRun
    /\ pass' = << >>
    /\ silentToneOscillator' = stopSilentAudioStream
    /\ wakeLock' = releaseWakeLock
    /\ UNCHANGED <<variant, threw, loaded, audioState, currentTime, tempo, beatsPerRoot, nextNoteTime,
                   rootVars, timeouts, runCount, lastTime>>

\* the click handler of the start/stop button
Click ==
    /\ loaded
    /\ IF isRunning
       THEN stopMetronome
       ELSE Len(audioOps) < MaxAudioOps /\ startMetronome

\* a start command given in any state: startMetronome()
StartCommand ==
    /\ loaded
    /\ ~isRunning => Len(audioOps) < MaxAudioOps
    /\ startMetronome

\* a stop command given in any state: stopMetronome()
StopCommand ==
    /\ loaded
    /\ ~isRunning => Len(audioOps) <= MaxAudioOps
    /\ stopMetronome

\* mutant of SetTempo: the beat to come is moved to the new period
SetTempo_Retime(t) ==
    /\ loaded
    /\ t # tempo
    /\ tempo' = t
    /\ nextNoteTime' = IF isRunning THEN lastTime + SecondsPerBeat(t) ELSE nextNoteTime
    /\ run' = IF isRunning THEN [run EXCEPT !.tempoFixed = FALSE] ELSE run
    /\ UNCHANGED <<otherVars, loaded, audioVars, currentTime, isRunning, beatsPerRoot,
                   currentBeat, timerWorker, ticks, rootVars, beatIndicator, timeouts,
                   runCount, lastTime, pass>>

\* the input handler of the tempo slider
SetTempo(t) ==
    /\ loaded
    /\ t # tempo
    /\ tempo' = t
    /\ run' = IF isRunning THEN [run EXCEPT !.tempoFixed = FALSE] ELSE run
    /\ UNCHANGED <<otherVars, loaded, audioVars, currentTime, isRunning, beatsPerRoot, nextNoteTime,
                   currentBeat, timerWorker, ticks, rootVars, beatIndicator, timeouts,
                   runCount, lastTime, pass>>

\* mutant of SetBeatsPerRoot: currentBeat is left as it is
SetBeatsPerRoot_NoReset(n) ==
    /\ loaded
    /\ n # beatsPerRoot
    /\ beatsPerRoot' = n
    /\ currentBeat' = currentBeat
    /\ run' = IF isRunning THEN [run EXCEPT !.beatsFixed = FALSE] ELSE run
    /\ UNCHANGED <<otherVars, loaded, audioVars, currentTime, isRunning, tempo, nextNoteTime,
                   timerWorker, ticks, rootVars, beatIndicator, timeouts, runCount,
                   lastTime, pass>>

\* the change handler of the beats-per-root radio group
SetBeatsPerRoot(n) ==
    /\ loaded
    /\ n # beatsPerRoot
    /\ beatsPerRoot' = n
    /\ currentBeat' = IF isRunning THEN SeedBeat(n) ELSE currentBeat
    /\ run' = IF isRunning THEN [run EXCEPT !.beatsFixed = FALSE] ELSE run
    /\ UNCHANGED <<otherVars, loaded, audioVars, currentTime, isRunning, tempo, nextNoteTime,
                   timerWorker, ticks, rootVars, beatIndicator, timeouts, runCount,
                   lastTime, pass>>

\* the worker's tick(): self.postMessage('tick')
WorkerTick ==
    /\ timerWorker # 0
    /\ timerWorker \notin ticks
    /\ ticks' = ticks \cup {timerWorker}
    /\ UNCHANGED <<otherVars, loaded, audioVars, currentTime, isRunning, tempo, beatsPerRoot,
                   nextNoteTime, currentBeat, timerWorker, rootVars, beatIndicator,
                   timeouts, runCount, lastTime, histVars>>

\* timerWorker.onmessage: scheduler()
OnMessage(w) ==
    /\ w \in ticks
    /\ ticks' = ticks \ {w}
    /\ LET st == scheduler
       IN  /\ nextNoteTime' = st.nextNoteTime
           /\ currentBeat' = st.currentBeat
           /\ timeouts' = st.timeouts
           /\ lastTime' = st.lastTime
           /\ run' = [run EXCEPT !.k = run.k + Len(st.beats)]
           /\ pass' = st.beats
    /\ UNCHANGED <<otherVars, loaded, audioVars, currentTime, isRunning, tempo, beatsPerRoot,
                   timerWorker, rootVars, beatIndicator, runCount>>

\* the callback scheduleClick passed to setTimeout
FireTimeout ==
    /\ timeouts # << >>
    /\ Head(timeouts).rem = 0
    /\ LET h == Head(timeouts)
       IN  /\ beatIndicator' = <<h.beat.beatNumber, beatsPerRoot>>
           /\ IF h.beat.isDownbeat THEN updateRoots ELSE UNCHANGED rootVars
    /\ timeouts' = Tail(timeouts)
    /\ UNCHANGED <<otherVars, loaded, audioVars, currentTime, isRunning, tempo, beatsPerRoot,
                   nextNoteTime, currentBeat, timerWorker, ticks, runCount,
                   lastTime, histVars>>

\* 50 ms pass: the audio clock advances while the context runs, and every
\* pending timeout comes 50 ms closer; a callback that is due fires, and a
\* posted tick is delivered, before 50 ms more pass
TimePasses ==
    /\ audioState = "running" => currentTime < MaxClock
    /\ \A i \in 1..Len(timeouts) : timeouts[i].rem > 0
    /\ ticks = {}
    /\ currentTime' = IF audioState = "running" THEN currentTime + 1 ELSE currentTime
    /\ timeouts' = [i \in 1..Len(timeouts) |->
                      [timeouts[i] EXCEPT !.rem = IF @ > 0 THEN @ - 1 ELSE 0]]
    /\ pass' = << >>
    /\ UNCHANGED <<otherVars, loaded, audioVars, isRunning, tempo, beatsPerRoot, nextNoteTime,
                   currentBeat, timerWorker, ticks, rootVars, beatIndicator, runCount,
                   lastTime, run>>

\* the audio context carries out the oldest pending suspend() or resume()
AudioProcess ==
    /\ audioOps # << >>
    /\ audioState' = IF Head(audioOps) = "suspend" THEN "suspended" ELSE "running"
    /\ audioOps' = Tail(audioOps)
    /\ UNCHANGED <<otherVars, loaded, currentTime, isRunning, tempo, beatsPerRoot, nextNoteTime,
                   currentBeat, timerWorker, ticks, rootVars, beatIndicator, timeouts,
                   runCount, lastTime, histVars>>

Next ==
    \/ DOMContentLoaded
    \/ Click
    \/ StartCommand
    \/ StopCommand
    \/ \E t \in TempoValues : SetTempo(t)
    \/ \E n \in BeatOptions : SetBeatsPerRoot(n)
    \/ WorkerTick
    \/ \E w \in ticks : OnMessage(w)
    \/ FireTimeout
    \/ TimePasses
    \/ AudioProcess

Spec == Init /\ [][Next]_vars

\* the page with either version of the script
VariantSpec == (Init \/ InitSilent) /\ [][Next]_vars

\* ---------------------------------------------------- platform failures

\* the platform suspends the audio context by itself (an interruption, a
\* page put in the background)
PlatformSuspend ==
    /\ audioState = "running"
    /\ audioState' = "suspended"
    /\ UNCHANGED <<otherVars, loaded, audioOps, currentTime, isRunning, tempo,
                   beatsPerRoot, nextNoteTime, currentBeat, timerWorker, ticks,
                   rootVars, beatIndicator, timeouts, runCount, lastTime, histVars>>

\* the platform rejects the oldest pending resume(): the context stays suspended
AudioResumeFails ==
    /\ audioOps # << >>
    /\ Head(audioOps) = "resume"
    /\ audioState' = "suspended"
    /\ audioOps' = Tail(audioOps)
    /\ UNCHANGED <<otherVars, loaded, currentTime, isRunning, tempo, beatsPerRoot,
                   nextNoteTime, currentBeat, timerWorker, ticks, rootVars,
                   beatIndicator, timeouts, runCount, lastTime, histVars>>

\* the click handler, startMetronome() where new AudioContext() throws: the
\* exception leaves the handler before anything is assigned
StartAudioFails ==
    /\ loaded
    /\ ~isRunning
    /\ audioState = "null"
    /\ threw' = TRUE
    /\ wakeLock' = requestWakeLock
    /\ UNCHANGED <<variant, silentToneOscillator, loaded, audioVars, currentTime,
                   isRunning, tempo, beatsPerRoot, nextNoteTime, currentBeat,
                   timerWorker, ticks, rootVars, beatIndicator, timeouts, runCount,
                   lastTime, histVars>>

\* the click handler, startMetronome() where new Worker() throws: the
\* exception leaves the handler after isRunning, nextNoteTime and currentBeat
\* were assigned and before timerWorker is
StartWorkerFails ==
    /\ loaded
    /\ ~isRunning
    /\ Len(audioOps) < MaxAudioOps
    /\ \E fresh \in {"suspended", "running"} :
          LET state == IF audioState = "null" THEN fresh ELSE audioState
          IN  /\ audioState' = state
              /\ audioOps' = IF state = "suspended"
                             THEN Append(audioOps, "resume") ELSE audioOps
    /\ isRunning' = TRUE
    /\ nextNoteTime' = FirstNoteTime(currentTime)
    /\ currentBeat' = SeedBeat(beatsPerRoot)
    /\ run' = [start |-> currentTime, k |-> 0, tempoFixed |-> TRUE, beatsFixed |-> TRUE]
    /\ pass' = << >>
    /\ silentToneOscillator' = startSilentAudioStream
    /\ wakeLock' = requestWakeLock
    /\ threw' = TRUE
    /\ UNCHANGED <<variant, loaded, currentTime, tempo, beatsPerRoot, timerWorker,
                   ticks, rootVars, beatIndicator, timeouts, runCount, lastTime>>

\* app.js: the platform releases the wake lock (the page is hidden), and the
\* 'release' listener of requestWakeLock sets wakeLock = null
WakeLockReleased ==
    /\ wakeLock
    /\ wakeLock' = FALSE
    /\ UNCHANGED <<variant, silentToneOscillator, threw, loaded, audioVars,
                   currentTime, isRunning, tempo, beatsPerRoot, nextNoteTime,
                   currentBeat, timerWorker, ticks, rootVars, beatIndicator,
                   timeouts, runCount, lastTime, histVars>>

\* app.js: the visibilitychange handler, the page being visible again:
\* if (isRunning && document.visibilityState === 'visible') requestWakeLock()
VisibilityChange ==
    /\ loaded
    /\ variant = "app"
    /\ wakeLock' = IF isRunning THEN requestWakeLock ELSE wakeLock
    /\ UNCHANGED <<variant, silentToneOscillator, threw, loaded, audioVars,
                   currentTime, isRunning, tempo, beatsPerRoot, nextNoteTime,
                   currentBeat, timerWorker, ticks, rootVars, beatIndicator,
                   timeouts, runCount, lastTime, histVars>>

NextFault ==
    \/ Next
    \/ PlatformSuspend
    \/ AudioResumeFails
    \/ StartAudioFails
    \/ StartWorkerFails
    \/ WakeLockReleased
    \/ VisibilityChange

\* either version of the script on a platform that can suspend the audio
\* context, can fail to create or resume it or to create the worker, and can
\* hide the page and show it again
FaultSpec == (Init \/ InitSilent) /\ [][NextFault]_vars

\* ------------------------------------------------------------ step names

\* a step in which the onmessage handler ran scheduler()
PassStep ==
    /\ timerWorker # 0
    /\ timerWorker' = timerWorker
    /\ timerWorker \in ticks
    /\ timerWorker \notin ticks'

\* a step in which a visual callback fired
FireStep == Len(timeouts') < Len(timeouts)

\* a step in which stopMetronome ran from the Running state
StopStep == isRunning /\ ~isRunning'

\* the beat index of the k-th beat of a cycle of n beats that starts at 1
IndexOf(k, n) == ((k - 1) % n) + 1

\* the number of j >= 0 with from + j * spb < horizon
DueCount(from, horizon, spb) ==
    IF from >= horizon THEN 0 ELSE ((horizon - from - 1) \div spb) + 1

\* ----------------------------------------------------------------- C1
\* C1: the first beat scheduler() computes in a run has index 1 and is
\* flagged as a downbeat, whatever beatsPerRoot is, also when beatsPerRoot
\* was changed between the start and the first tick and in a run started
\* after an earlier run was stopped.
C1_FirstBeatIsDownbeat ==
    (isRunning /\ run.k >= 1 /\ run.k = Len(pass)) =>
        (pass[1].beatNumber = 1 /\ pass[1].isDownbeat)

\* a second run has computed its first beat after beatsPerRoot was changed
\* in it before that beat
C1_Witness ==
    /\ isRunning
    /\ runCount = 2
    /\ run.k >= 1
    /\ run.k = Len(pass)
    /\ ~run.beatsFixed
    /\ currentBeat = IndexOf(run.k, beatsPerRoot)

\* ----------------------------------------------------------------- C2
\* C2: whenever isRunning is true, 1 <= currentBeat <= beatsPerRoot.
C2_BeatInRange ==
    isRunning => (1 <= currentBeat /\ currentBeat <= beatsPerRoot)

\* a run in which beatsPerRoot was changed and beats were computed
C2_Witness ==
    /\ isRunning
    /\ ~run.beatsFixed
    /\ ~run.tempoFixed
    /\ run.k >= 2
    /\ runCount = 2

\* ----------------------------------------------------------------- C3
\* C3: with beatsPerRoot fixed at N during a run, the k-th beat computed in
\* the run has index ((k-1) mod N) + 1 (the indices run 1,2,...,N,1,2,...:
\* p is followed by p+1 when p < N and by 1 when p = N), and a beat is
\* flagged as a downbeat exactly when its index is 1.
C3_CycleOrder ==
    (isRunning /\ run.beatsFixed) =>
        /\ run.k >= 1 => currentBeat = IndexOf(run.k, beatsPerRoot)
        /\ Len(pass) <= run.k
        /\ \A i \in 1..Len(pass) :
              /\ pass[i].beatNumber = IndexOf(run.k - Len(pass) + i, beatsPerRoot)
              /\ pass[i].isDownbeat <=> (pass[i].beatNumber = 1)
              /\ i > 1 => pass[i].beatNumber =
                             IF pass[i - 1].beatNumber = beatsPerRoot
                             THEN 1 ELSE pass[i - 1].beatNumber + 1

\* a run with the longest cycle has wrapped to index 1 within one pass
C3_Witness ==
    /\ isRunning
    /\ run.beatsFixed
    /\ beatsPerRoot = MaxBeatsPerRoot
    /\ run.k = MaxBeatsPerRoot + 1
    /\ Len(pass) >= 2
    /\ currentBeat = 1

\* ----------------------------------------------------------------- C4
\* C4: with tempo constant during a run started at clock s, the k-th beat
\* of the run is scheduled at s + 0.1 + (k-1)*60/tempo whenever the ticks
\* arrive, so no beat of the run is scheduled before s + 0.1; at tempo 60
\* the period is one second.
C4_NoDrift ==
    /\ SecondsPerBeat(60) = UnitsPerSecond
    /\ (isRunning /\ run.tempoFixed) =>
        /\ nextNoteTime =
              run.start + StartOffset + run.k * SecondsPerBeat(tempo)
        /\ \A i \in 1..Len(pass) :
              /\ pass[i].time = run.start + StartOffset
                                  + (run.k - Len(pass) + i - 1) * SecondsPerBeat(tempo)
              /\ pass[i].time >= run.start + StartOffset

\* in a run started after the clock had advanced, a late tick has scheduled
\* several beats at once, the first of them not ahead of the clock
C4_Witness ==
    /\ isRunning
    /\ run.tempoFixed
    /\ run.start > 0
    /\ run.k >= 2
    /\ Len(pass) >= 2
    /\ pass[1].time <= currentTime

\* ----------------------------------------------------------------- C5
\* C5: a scheduler() call schedules exactly one event for each beat whose
\* time is earlier than the clock + 0.1 s, each at its own nextNoteTime, and
\* leaves nextNoteTime >= clock + 0.1 s: no due beat is skipped and none is
\* scheduled twice, also after a late tick.
C5_Pass ==
    LET spb == SecondsPerBeat(tempo)
        n   == DueCount(nextNoteTime, currentTime + LOOK_AHEAD_TIME, spb)
    IN  PassStep =>
          /\ Len(pass') = n
          /\ \A i \in 1..n :
                /\ pass'[i].time = nextNoteTime + (i - 1) * spb
                /\ pass'[i].time < currentTime + LOOK_AHEAD_TIME
                /\ Cardinality({j \in 1..Len(timeouts') :
                                  timeouts'[j].beat = pass'[i]}) = 1
          /\ Len(timeouts') = Len(timeouts) + n
          /\ nextNoteTime' = nextNoteTime + n * spb
          /\ nextNoteTime' >= currentTime + LOOK_AHEAD_TIME
          /\ run'.k = run.k + n

C5_EveryDueBeatOnce == [][C5_Pass]_vars

\* a late tick: one pass has scheduled three beats or more, the first overdue
C5_Witness ==
    /\ isRunning
    /\ Len(pass) >= 3
    /\ pass[1].time < currentTime
    /\ nextNoteTime >= currentTime + LOOK_AHEAD_TIME

\* ----------------------------------------------------------------- C6
\* the beats of the pending visual callbacks, in the order they will fire
Beats(q) == [i \in 1..Len(q) |-> q[i].beat]

\* C6: over the whole history, restarts and late ticks included, every beat
\* handed to the audio sink has a later scheduled time than the beat handed
\* to it before, and the visual callbacks fire in the order in which their
\* beats were scheduled: a pass queues its callbacks behind every pending
\* one, in scheduling order, and the callback that fires is the oldest.
C6_Step ==
    /\ PassStep =>
          /\ \A i \in 1..Len(pass') :
                pass'[i].time > (IF i = 1 THEN lastTime ELSE pass'[i - 1].time)
          /\ lastTime' = IF pass' = << >> THEN lastTime ELSE pass'[Len(pass')].time
          /\ Beats(timeouts') = Beats(timeouts) \o pass'
    /\ ~PassStep => lastTime' = lastTime /\ Len(timeouts') <= Len(timeouts)
    /\ FireStep => timeouts' = Tail(timeouts)

C6_IncreasingOrder == [][C6_Step]_vars

\* in a second run a pass has queued a callback behind a callback of the
\* first run that is still pending
C6_Witness ==
    /\ isRunning
    /\ runCount = 2
    /\ Len(pass) >= 1
    /\ Len(timeouts) >= 2
    /\ timeouts[1].beat.time < run.start + StartOffset
    /\ timeouts[Len(timeouts)].beat = pass[Len(pass)]

\* ----------------------------------------------------------------- C7
\* C7: in every reachable state currentRoot and upcomingRoot are roots of
\* the 14-symbol alphabet and differ from each other.
C7_RootPair ==
    /\ Len(ROOTS) = 14
    /\ currentRoot \in RootSet
    /\ upcomingRoot \in RootSet
    /\ currentRoot # upcomingRoot

\* in a second run a downbeat callback has advanced the pair, and the redraw
\* of upcoming has gone past the excluded root
C7_Witness ==
    /\ loaded
    /\ beatIndicator # << >>
    /\ beatIndicator[1] = 1
    /\ runCount = 2
    /\ currentRoot = "C#"
    /\ upcomingRoot = "C"

\* ----------------------------------------------------------------- C8
\* C8: every beat scheduler() computes gets one visual callback, which fires
\* once; the callback of a downbeat advances the root pair once (current
\* takes the value upcoming held, upcoming becomes a root different from the
\* new current, so current changes), the callback of any other beat leaves
\* the pair as it is, and nothing else changes the pair after initialization.
C8_Step ==
    /\ PassStep =>
          /\ Len(timeouts') = Len(timeouts) + Len(pass')
          /\ \A i \in 1..Len(pass') : pass'[i].isDownbeat <=> (pass'[i].beatNumber = 1)
          /\ UNCHANGED rootVars
    /\ FireStep =>
          /\ timeouts' = Tail(timeouts)
          /\ IF Head(timeouts).beat.isDownbeat
             THEN /\ currentRoot' = upcomingRoot
                  /\ currentRoot' # currentRoot
                  /\ upcomingRoot' \in RootSet \ {currentRoot'}
             ELSE UNCHANGED rootVars
    /\ (loaded /\ ~FireStep) => UNCHANGED rootVars

C8_RootAdvance == [][C8_Step]_vars

\* the callback of a beat other than a downbeat has fired after the callback
\* of a downbeat advanced the pair
C8_Witness ==
    /\ beatIndicator # << >>
    /\ beatIndicator[1] = 2
    /\ currentRoot # "G"

\* ----------------------------------------------------------------- C9
\* C9: after initialization and before any run is started, current = "C"
\* and upcoming is a root of the alphabet other than "C".
C9_InitialPair ==
    (loaded /\ runCount = 0) =>
        (currentRoot = "C" /\ upcomingRoot \in RootSet \ {"C"})

\* ---------------------------------------------------------------- C10
\* C10: when stopMetronome returns from the Running state, isRunning is
\* false, the worker is terminated (no tick of it is left to deliver) and
\* timerWorker is null, currentBeat is 0, the beat indicator is empty, and
\* suspend() has been requested of the audio context.
C10_Step ==
    StopStep =>
        /\ ~isRunning'
        /\ timerWorker # 0
        /\ timerWorker' = 0
        /\ timerWorker \notin ticks'
        /\ currentBeat' = 0
        /\ beatIndicator' = << >>
        /\ audioState # "null"
        /\ audioOps' = Append(audioOps, "suspend")

C10_Stop == [][C10_Step]_vars

\* stopped from a run that had a tick in flight, a beat shown and a visual
\* callback pending
C10_Witness ==
    /\ ~isRunning
    /\ runCount >= 1
    /\ timerWorker = 0
    /\ ticks = {}
    /\ currentBeat = 0
    /\ beatIndicator = << >>
    /\ timeouts # << >>
    /\ audioOps # << >>
    /\ audioOps[Len(audioOps)] = "suspend"

\* ---------------------------------------------------------------- C11
\* C11: startMetronome invoked while Running changes nothing: isRunning,
\* currentBeat, nextNoteTime, the worker (no second one is created) and the
\* scheduled beats stay as the one start left them; during a run the worker
\* and the count of workers created never change, nextNoteTime and the
\* scheduled beats change only by scheduler() and by a callback firing, and
\* currentBeat only by scheduler() and a beats-per-root change.
C11_Step ==
    /\ (isRunning /\ StartCommand) => UNCHANGED vars
    /\ (isRunning /\ isRunning') =>
          /\ timerWorker' = timerWorker
          /\ runCount' = runCount
          /\ run'.start = run.start
          /\ ~PassStep =>
                /\ nextNoteTime' = nextNoteTime
                /\ \/ Beats(timeouts') = Beats(timeouts)
                   \/ timeouts' = Tail(timeouts)
          /\ (~PassStep /\ beatsPerRoot' = beatsPerRoot) => currentBeat' = currentBeat

C11_StartNoOp == [][C11_Step]_vars

\* a first run with a beat scheduled and a tick in flight, where a start
\* command is a step of the program
C11_Witness ==
    /\ isRunning
    /\ runCount = 1
    /\ run.k >= 1
    /\ timeouts # << >>
    /\ ticks # {}
    /\ nextNoteTime # FirstNoteTime(currentTime)

\* ---------------------------------------------------------------- C12
\* C12: stopMetronome invoked while Stopped, also before any start when
\* there is no audio context and no worker, raises no error and leaves
\* isRunning, currentBeat, nextNoteTime, tempo, beatsPerRoot, the root pair
\* and timerWorker as they are; what it leaves is what one stop leaves (the
\* beat indicator empty, no silent oscillator), and all it does besides is
\* to ask an existing audio context to suspend once more.
C12_Step ==
    (~isRunning /\ StopCommand) =>
        /\ ~threw'
        /\ UNCHANGED <<isRunning, currentBeat, nextNoteTime, tempo, beatsPerRoot,
                       rootVars, timerWorker>>
        /\ timerWorker = 0
        /\ currentBeat = 0
        /\ beatIndicator' = << >>
        /\ ~silentToneOscillator /\ ~silentToneOscillator'
        /\ UNCHANGED <<audioState, currentTime, ticks, timeouts, lastTime>>
        /\ audioOps' = IF audioState = "null" THEN audioOps
                       ELSE Append(audioOps, "suspend")

C12_StopWhenStopped == [][C12_Step]_vars

\* after a run, a stop command given while Stopped has asked the audio
\* context to suspend a second time
C12_Witness ==
    /\ ~isRunning
    /\ runCount >= 1
    /\ timeouts # << >>
    /\ Len(audioOps) >= 2
    /\ audioOps[Len(audioOps)] = "suspend"
    /\ audioOps[Len(audioOps) - 1] = "suspend"

\* ---------------------------------------------------------------- C13
\* C13: after a stop no tick of the stopped run has any effect: the stop
\* discards every tick the worker has posted, so the only ticks ever waiting
\* for delivery are those of the worker of the current run; while Stopped
\* nothing schedules a beat or changes currentBeat or nextNoteTime, and a
\* run started after the stop is driven by its own ticks alone.
C13_Step ==
    /\ \A w \in ticks' : isRunning' /\ w = timerWorker'
    /\ StopStep => ticks' = {}
    /\ (~isRunning /\ ~isRunning') =>
          /\ UNCHANGED <<currentBeat, nextNoteTime, lastTime>>
          /\ Len(timeouts') <= Len(timeouts)
    /\ (~isRunning /\ isRunning') => (ticks' = {} /\ UNCHANGED <<timeouts, lastTime>>)
    /\ Len(timeouts') > Len(timeouts) => (isRunning /\ PassStep)

C13_NoStaleTick == [][C13_Step]_vars

\* a run started after a stop that discarded a tick, with callbacks of the
\* stopped run still pending, has been sent its own first tick
C13_Witness ==
    /\ isRunning
    /\ runCount = 2
    /\ run.k = 0
    /\ ticks = {timerWorker}
    /\ timeouts # << >>

\* ---------------------------------------------------------------- C14
\* C14: a change of beatsPerRoot to M while Running sets currentBeat to M
\* whatever the beat index was, currentBeat then stays M until scheduler()
\* computes a beat, and the first beat scheduler() computes from
\* currentBeat = beatsPerRoot has index 1 and is a downbeat: the beat after
\* the change starts a cycle, it does not continue the old one.
C14_Step ==
    /\ (isRunning /\ beatsPerRoot' # beatsPerRoot) =>
          /\ isRunning'
          /\ currentBeat' = beatsPerRoot'
          /\ UNCHANGED <<nextNoteTime, timeouts, timerWorker>>
    /\ (isRunning /\ isRunning' /\ ~PassStep /\ beatsPerRoot' = beatsPerRoot) =>
          currentBeat' = currentBeat
    /\ (PassStep /\ currentBeat = beatsPerRoot /\ pass' # << >>) =>
          /\ pass'[1].beatNumber = 1
          /\ pass'[1].isDownbeat
    /\ (PassStep /\ pass' = << >>) => currentBeat' = currentBeat

C14_BeatsChangeRestartsCycle == [][C14_Step]_vars

\* after beats were computed in a run, beatsPerRoot was changed in the middle
\* of a cycle and the next beat computed is a downbeat, where the old cycle
\* carried on would have given another index
C14_Witness ==
    /\ isRunning
    /\ ~run.beatsFixed
    /\ Len(pass) >= 1
    /\ run.k > Len(pass)
    /\ pass[1].beatNumber = 1
    /\ pass[1].isDownbeat
    /\ IndexOf(run.k - Len(pass) + 1, beatsPerRoot) # 1

\* ---------------------------------------------------------------- C15
\* the time of the beat scheduled before beat i of the pass of this step
PreviousBeatTime(i) == IF i = 1 THEN lastTime ELSE pass'[i - 1].time

\* C15 as stated: in a run, every beat computed is scheduled 60/tempo after
\* the beat scheduled before it, with the tempo in force when it is
\* computed; so is the first beat computed after a tempo change.
C15_OriginalStep ==
    (PassStep /\ run.k >= 1) =>
        \A i \in 1..Len(pass') :
            pass'[i].time = PreviousBeatTime(i) + SecondsPerBeat(tempo)

C15_Original == [][C15_OriginalStep]_vars

\* C15 amended: a tempo change to T during a run leaves the time already
\* computed for the next beat as it is (60/tempo-before after its
\* predecessor); the first beat of a pass is scheduled at that time, every
\* further beat 60/T after the beat before it, and nextNoteTime stays 60/T
\* after the last scheduled beat until the tempo changes again.
C15_Step ==
    /\ (isRunning /\ tempo' # tempo) =>
          UNCHANGED <<isRunning, nextNoteTime, lastTime, timeouts>>
    /\ (PassStep /\ pass' # << >>) =>
          /\ pass'[1].time = nextNoteTime
          /\ \A i \in 2..Len(pass') :
                pass'[i].time = pass'[i - 1].time + SecondsPerBeat(tempo)
          /\ nextNoteTime' = pass'[Len(pass')].time + SecondsPerBeat(tempo)
          /\ lastTime' = pass'[Len(pass')].time
    /\ (isRunning /\ isRunning' /\ run.k >= 1 /\ tempo' = tempo
          /\ nextNoteTime = lastTime + SecondsPerBeat(tempo)) =>
          nextNoteTime' = lastTime' + SecondsPerBeat(tempo)

C15_TempoChange == [][C15_Step]_vars

\* the tempo was changed between the first and the second beat of a run: the
\* second beat is not the new period after the first, the third will be the
\* new period after the second
C15_Witness ==
    /\ isRunning
    /\ ~run.tempoFixed
    /\ run.k = 2
    /\ Len(pass) = 1
    /\ pass[1].time # run.start + StartOffset + SecondsPerBeat(tempo)
    /\ nextNoteTime = pass[1].time + SecondsPerBeat(tempo)

\* ---------------------------------------------------------------- C16
\* C16: a tempo change or a beats-per-root change leaves every scheduled
\* beat with the time and the beat index it was scheduled with, and a tempo
\* change does not interrupt the run: isRunning, currentBeat, nextNoteTime
\* and the worker stay as they are.
C16_Step ==
    /\ (tempo' # tempo \/ beatsPerRoot' # beatsPerRoot) =>
          UNCHANGED <<timeouts, lastTime, isRunning, nextNoteTime, timerWorker, ticks>>
    /\ tempo' # tempo => UNCHANGED <<currentBeat, beatsPerRoot, rootVars, beatIndicator>>

C16_ChangeKeepsScheduled == [][C16_Step]_vars

\* both were changed in a run after its last beat was scheduled: a pending
\* beat has an index beyond the new cycle, and the beat to come is not one
\* new period after the last
C16_Witness ==
    /\ isRunning
    /\ run.k >= 1
    /\ ~run.tempoFixed
    /\ ~run.beatsFixed
    /\ \E i \in 1..Len(timeouts) : timeouts[i].beat.beatNumber > beatsPerRoot
    /\ nextNoteTime # lastTime + SecondsPerBeat(tempo)

\* ---------------------------------------------------------------- C17
\* C17: the beat period is positive for every tempo, so every scheduler()
\* call ends: each iteration moves nextNoteTime up by the period towards the
\* fixed horizon clock + 0.1 s, and the call makes as many iterations as
\* there are due beats, never more than the distance to the horizon allows.
\* A call that finds the schedule up to date as of 50 ms before (no beat was
\* due then), as every call does when the ticks come each 25 ms, schedules
\* at most one beat, at tempo 120 as at any tempo.
C17_Step ==
    LET spb     == SecondsPerBeat(tempo)
        horizon == currentTime + LOOK_AHEAD_TIME
    IN  /\ \A t \in TempoValues : SecondsPerBeat(t) > 0
        /\ PassStep =>
              /\ Len(pass') = DueCount(nextNoteTime, horizon, spb)
              /\ nextNoteTime < horizon => Len(pass') <= horizon - nextNoteTime
              /\ nextNoteTime >= horizon => pass' = << >>
              /\ nextNoteTime' = nextNoteTime + Len(pass') * spb
              /\ nextNoteTime' >= horizon
              /\ nextNoteTime >= horizon - 1 => Len(pass') <= 1

C17_SchedulerTerminates == [][C17_Step]_vars

\* at tempo 120 a call that was in time has scheduled one beat, 50 ms ahead
\* of the clock, and the next beat is half a second after it
C17_Witness ==
    /\ isRunning
    /\ tempo = InitialTempo
    /\ run.tempoFixed
    /\ Len(pass) = 1
    /\ pass[1].time = currentTime + 1
    /\ nextNoteTime = pass[1].time + UnitsPerSecond \div 2

\* ---------------------------------------------------------------- C18
\* C18: when the audio context is suspended during a run, every beat that
\* scheduler() computes still gets its visual callback (and with it, on a
\* downbeat, its root advance), as it does when the context is not
\* suspended; only the tone is dropped.
C18_Step ==
    (PassStep /\ audioState = "suspended") =>
        /\ Len(timeouts') = Len(timeouts) + Len(pass')
        /\ \A i \in 1..Len(pass') :
              \E j \in 1..Len(timeouts') : timeouts'[j].beat = pass'[i]

C18_SuspendedKeepsVisuals == [][C18_Step]_vars

\* ---------------------------------------------------------------- C19
\* a step in which new AudioContext() threw in startMetronome
AudioCreationFailed == ~threw /\ threw' /\ audioState' = "null"

\* a step in which the platform rejected a resume() that startMetronome asked for
AudioResumeFailed ==
    /\ audioOps # << >>
    /\ Head(audioOps) = "resume"
    /\ audioOps' = Tail(audioOps)
    /\ audioState' = "suspended"

\* C19: if the audio context cannot be created or resumed when start is
\* commanded, the metronome is not Running and nothing of the run's state
\* was changed: isRunning false, no worker, currentBeat and nextNoteTime as
\* they were.
C19_Step ==
    /\ AudioCreationFailed =>
          /\ ~isRunning'
          /\ UNCHANGED <<isRunning, timerWorker, currentBeat, nextNoteTime>>
    /\ AudioResumeFailed =>
          /\ ~isRunning'
          /\ timerWorker' = 0

C19_NoRunWithoutAudio == [][C19_Step]_vars

\* ---------------------------------------------------------------- C20
\* C20: a Running metronome always has a tick source driving scheduler(),
\* also when the worker could not be created at start.
C20_RunningHasTickSource ==
    isRunning => timerWorker # 0

\* ---------------------------------------------------------------- C21
\* C21: the root pair and the cycle state (currentBeat, nextNoteTime) are
\* written by scheduler() alone: after initialization the root pair changes
\* only in a step in which scheduler() ran, and a visual callback that fires
\* writes neither the root pair nor the cycle state.
C21_Step ==
    /\ (loaded /\ ~PassStep) => UNCHANGED rootVars
    /\ FireStep => UNCHANGED <<rootVars, currentBeat, nextNoteTime>>

C21_SinksNeverWrite == [][C21_Step]_vars

\* ---------------------------------------------------------------- C22
\* a step in which the visibilitychange handler ran while Running, the page
\* being visible again after the platform had released the wake lock
VisibilityRegained == isRunning /\ isRunning' /\ ~wakeLock /\ wakeLock'

\* C22: when the page becomes visible again while Running and the platform
\* has suspended the audio context, the handler resumes it: after the step
\* the context runs or resume() is the latest request made of it.
C22_Step ==
    (VisibilityRegained /\ audioState = "suspended") =>
        \/ audioState' = "running"
        \/ /\ audioOps' # << >>
           /\ audioOps'[Len(audioOps')] = "resume"

C22_VisibilityResumesAudio == [][C22_Step]_vars

\* ---------------------------------------------------------------- C23
\* C23: scheduler() queues the visual callback of a beat scheduled for time
\* t with the delay t - clock, or without delay when t is past, and the
\* callback never fires before the audio clock has reached t, also when the
\* run is stopped or the audio context suspended while it is pending.
C23_Step ==
    /\ PassStep =>
          \A i \in 1..Len(pass') :
             \E j \in 1..Len(timeouts') :
                /\ timeouts'[j].beat = pass'[i]
                /\ timeouts'[j].rem = Delay(pass'[i].time, currentTime)
    /\ FireStep => Head(timeouts).beat.time <= currentTime

C23_VisualAtAudioTime == [][C23_Step]_vars

\* ---------------------------------------------------------------- C24
\* the run-scoped resources are held exactly when Running
C24_Held ==
    /\ isRunning <=> timerWorker # 0
    /\ \A w \in ticks : isRunning /\ w = timerWorker
    /\ variant = "silent" => (silentToneOscillator <=> isRunning)
    /\ variant = "app" => ~silentToneOscillator

\* a worker is created only when there is none, the worker of a run is kept
\* for the whole run, and a worker that is let go has been terminated
C24_Step ==
    /\ (~isRunning /\ isRunning') => (timerWorker = 0 /\ timerWorker' # 0)
    /\ (isRunning /\ isRunning') => (timerWorker' = timerWorker /\ runCount' = runCount)
    /\ (timerWorker # 0 /\ timerWorker' = 0) => (~isRunning' /\ ticks' = {})

C25_Step ==
    (loaded /\ runCount >= 1 /\ ~isRunning /\ ~isRunning') =>
        /\ beatIndicator' = << >>
        /\ currentBeat' = 0
        /\ UNCHANGED rootVars

C25_StoppedIsFrozen == [][C25_Step]_vars

\* ---------------------------------------------------------------- C26
\* C26: the beat indicator always shows a beat index b and a cycle length n
\* with 1 <= b <= n, also when beatsPerRoot was changed between the
\* scheduling of the beat and the firing of its callback.
C26_ShownBeatInCycle ==
    beatIndicator # << >> =>
        (1 <= beatIndicator[1] /\ beatIndicator[1] <= beatIndicator[2])

====
